---- MODULE Spec2Model ----
(***************************************************************************)
(* Model of dashboard.py: load_results, prepare_data and main.             *)
(*                                                                         *)
(* A JSON object is a function whose DOMAIN is its key set, so d["k"] on   *)
(* an object without key k is the KeyError of the source.  A string that   *)
(* the code inspects character by character (translator names, the search  *)
(* term) is a sequence of one-character strings.  A DataFrame is the       *)
(* sequence of its rows; the DataFrame built from an empty list has no     *)
(* columns at all.  main is one run of the script, cut into its stages by  *)
(* pc; an uncaught exception ends the run in pc = "fault".                 *)
(***************************************************************************)
EXTENDS Integers, Sequences, FiniteSets, TLC

VARIABLES
    fileExists,          \* final_results.json is present on disk
    fileContent,         \* the JSON array it holds (<<>> when absent)
    pc,                  \* position of main
    results,             \* main: results
    notices,             \* st.error messages emitted so far
    calls,               \* functions called / panels rendered so far
    fault,               \* the uncaught exception, if any
    df,                  \* main: df
    search_term,         \* main: search_term
    translator_table,    \* main: translator_table
    options,             \* options handed to st.sidebar.selectbox
    selected_translator, \* main: selected_translator ({} is None, {n} is n)
    overview,            \* the two st.metric values of the overview column
    summary              \* the two Global Insights figures

vars == <<fileExists, fileContent, pc, results, notices, calls, fault, df,
          search_term, translator_table, options, selected_translator,
          overview, summary>>

-----------------------------------------------------------------------------
(* Bounds of the explored inputs *)

MaxRecords == 2

MaxPosts == 2

-----------------------------------------------------------------------------
(* Input pools *)

NameAb == <<"A", "b">>
NameB == <<"b">>
NameA == <<"a">>

HeaderPool ==
    { [rank |-> 1, translator |-> NameAb, downloads |-> 3],
      [rank |-> 2, translator |-> NameB,  downloads |-> 3],
      [rank |-> 2, translator |-> NameAb, downloads |-> 1],
      [rank |-> 3, translator |-> NameA,  downloads |-> 2] }

PostP1 == [title |-> "p1", downloads |-> 2, pid |-> "x"]

PostP2 == [title |-> "p2", downloads |-> 1, pid |-> "x"]

PostP3 == [title |-> "p3", downloads |-> 1, pid |-> "y"]

PostPool == { PostP1, PostP2, PostP3 }

TermPool == { <<>>, <<"a">>, <<"B">>, <<"a", "B">>, <<"c">> }

PostSeqs(k) == UNION { [1..n -> PostPool] : n \in 0..k }

RecordsUpTo(k) ==
    { [rank |-> h.rank, translator |-> h.translator, downloads |-> h.downloads,
       posts |-> ps] : h \in HeaderPool, ps \in PostSeqs(k) }

RECURSIVE InputsOf(_, _)
\* the arrays of exactly n well-formed records holding at most k posts in all
InputsOf(n, k) ==
    IF n = 0 THEN { <<>> }
    ELSE UNION { { Append(s, r) : s \in InputsOf(n - 1, k - Len(r.posts)) }
                 : r \in RecordsUpTo(k) }

WellFormedInputs == UNION { InputsOf(n, MaxPosts) : n \in 0..MaxRecords }

\* the object d without key k
DropKey(d, k) == [ x \in DOMAIN d \ { k } |-> d[x] ]

RecordKeys == { "rank", "translator", "downloads", "posts" }

PostKeys == { "title", "downloads", "pid" }

KeyBase ==
    { [rank |-> 1, translator |-> NameAb, downloads |-> 3, posts |-> <<PostP1>>],
      [rank |-> 2, translator |-> NameB,  downloads |-> 3, posts |-> <<>>],
      [rank |-> 3, translator |-> NameA,  downloads |-> 2, posts |-> <<PostP3, PostP1>>] }

\* records of KeyBase, whole, with one key dropped, or with one key of their
\* last post dropped
KeyPool ==
    KeyBase
    \cup { DropKey(r, k) : r \in KeyBase, k \in RecordKeys }
    \cup { [r EXCEPT !["posts"][Len(r.posts)] = DropKey(@, k)]
            : r \in { b \in KeyBase : b.posts # <<>> }, k \in PostKeys }

KeyInputs == UNION { [1..n -> KeyPool] : n \in 0..MaxRecords }

-----------------------------------------------------------------------------
(* Exceptions *)

NoFault == [raised |-> FALSE, exc |-> "", key |-> "", at |-> ""]

KeyError(k, where) == [raised |-> TRUE, exc |-> "KeyError", key |-> k, at |-> where]

Returned(v) == [raised |-> FALSE, key |-> "", data |-> v]

Raised(k) == [raised |-> TRUE, key |-> k, data |-> <<>>]

RECURSIVE FirstMissing(_, _, _)
\* the first key of keys[i..] that object d lacks, "" when it has them all
FirstMissing(d, keys, i) ==
    IF i > Len(keys) THEN ""
    ELSE IF keys[i] \notin DOMAIN d THEN keys[i]
    ELSE FirstMissing(d, keys, i + 1)

-----------------------------------------------------------------------------
(* load_results *)

FileNotFoundNotice == "Final results file not found. Please run the algorithm first."

load_results_silent(exists, content) ==
    [ret |-> IF exists THEN content ELSE <<>>, errors |-> <<>>]

load_results(exists, content) ==
    IF exists
    THEN [ret |-> content, errors |-> <<>>]
    ELSE [ret |-> <<>>, errors |-> <<FileNotFoundNotice>>]

-----------------------------------------------------------------------------
(* prepare_data *)

RECURSIVE SumPostDownloads(_, _)
SumPostDownloads(posts, j) ==
    IF j > Len(posts) THEN 0 ELSE posts[j]["downloads"] + SumPostDownloads(posts, j + 1)

FlatRowRecomputed(result, total_downloads, post) ==
    [Rank            |-> result["rank"],
     Translator      |-> result["translator"],
     Total_Downloads |-> SumPostDownloads(result["posts"], 1),
     Post_Title      |-> post["title"],
     Post_Downloads  |-> post["downloads"],
     PID             |-> post["pid"]]

FlatRow(result, total_downloads, post) ==
    [Rank            |-> result["rank"],
     Translator      |-> result["translator"],
     Total_Downloads |-> total_downloads,
     Post_Title      |-> post["title"],
     Post_Downloads  |-> post["downloads"],
     PID             |-> post["pid"]]

RECURSIVE PostLoopPrepend(_, _, _, _)
PostLoopPrepend(result, total_downloads, j, data) ==
    IF j > Len(result["posts"]) THEN Returned(data)
    ELSE PostLoopPrepend(result, total_downloads, j + 1,
                         <<FlatRow(result, total_downloads, result["posts"][j])>> \o data)

RECURSIVE PostLoop(_, _, _, _)
\* the inner loop from post j on; the dict display reads its keys in order
PostLoop(result, total_downloads, j, data) ==
    IF j > Len(result["posts"]) THEN Returned(data)
    ELSE LET post == result["posts"][j]
             k1 == FirstMissing(result, <<"rank", "translator">>, 1)
             k2 == FirstMissing(post, <<"title", "downloads", "pid">>, 1)
         IN  IF k1 # "" THEN Raised(k1)
             ELSE IF k2 # "" THEN Raised(k2)
             ELSE PostLoop(result, total_downloads, j + 1,
                           Append(data, FlatRow(result, total_downloads, post)))

RECURSIVE ResultLoopEager(_, _, _)
ResultLoopEager(rs, i, data) ==
    IF i > Len(rs) THEN Returned(data)
    ELSE LET result == rs[i]
             k == FirstMissing(result, <<"downloads", "posts", "rank", "translator">>, 1)
         IN  IF k # "" THEN Raised(k)
             ELSE LET inner == PostLoop(result, result["downloads"], 1, data)
                  IN  IF inner.raised THEN inner
                      ELSE ResultLoopEager(rs, i + 1, inner.data)

RECURSIVE ResultLoop(_, _, _)
\* the outer loop from record i on
ResultLoop(rs, i, data) ==
    IF i > Len(rs) THEN Returned(data)
    ELSE LET result == rs[i]
         IN  IF "downloads" \notin DOMAIN result THEN Raised("downloads")
             ELSE IF "posts" \notin DOMAIN result THEN Raised("posts")
             ELSE LET inner == PostLoop(result, result["downloads"], 1, data)
                  IN  IF inner.raised THEN inner
                      ELSE ResultLoop(rs, i + 1, inner.data)

prepare_data(rs) == ResultLoop(rs, 1, <<>>)

-----------------------------------------------------------------------------
(* DataFrame operations used by main *)

HasColumnAlways(frame, col) == TRUE

\* pd.DataFrame([]) has no columns; a frame built from row dicts has their keys
HasColumn(frame, col) == frame # <<>>

Column(frame, col) == { frame[i][col] : i \in 1..Len(frame) }

MaxOf(S) == CHOOSE m \in S : \A x \in S : x <= m

MinOf(S) == CHOOSE m \in S : \A x \in S : m <= x

GroupMin(frame, name, col) ==
    MinOf({ frame[i][col] : i \in { k \in 1..Len(frame) : frame[k].Translator = name } })

\* .groupby("Translator")[[...]].max(): the column's maximum over the group
GroupMax(frame, name, col) ==
    MaxOf({ frame[i][col] : i \in { k \in 1..Len(frame) : frame[k].Translator = name } })

\* df.groupby("Translator")[["Rank", "Total Downloads"]].max().reset_index()
GroupByTranslatorMax(frame) ==
    { [Translator      |-> n,
       Rank            |-> GroupMax(frame, n, "Rank"),
       Total_Downloads |-> GroupMax(frame, n, "Total_Downloads")]
      : n \in Column(frame, "Translator") }

Orderings(S) ==
    { s \in [1..Cardinality(S) -> S] : \A i, j \in DOMAIN s : i # j => s[i] # s[j] }

SortValuesAscending(S, col) ==
    { s \in Orderings(S) : \A i, j \in DOMAIN s : i < j => s[i][col] <= s[j][col] }

\* .sort_values(col, ascending=False): the default sort kind is not stable, so
\* rows with equal keys may come out in any relative order
SortValuesDescending(S, col) ==
    { s \in Orderings(S) : \A i, j \in DOMAIN s : i < j => s[i][col] >= s[j][col] }

\* translator_table["Index"] = range(1, len(translator_table) + 1)
WithIndex(rows) ==
    [ i \in 1..Len(rows) |->
        [Index           |-> i,
         Rank            |-> rows[i].Rank,
         Translator      |-> rows[i].Translator,
         Total_Downloads |-> rows[i].Total_Downloads] ]

RECURSIVE SelectRows(_, _, _)
\* frame[mask].reset_index(drop=True), mask given as the set of kept positions
SelectRows(frame, keep, i) ==
    IF i > Len(frame) THEN <<>>
    ELSE IF i \in keep THEN <<frame[i]>> \o SelectRows(frame, keep, i + 1)
    ELSE SelectRows(frame, keep, i + 1)

RECURSIVE DropLoop(_, _, _)
DropLoop(frame, i, seen) ==
    IF i > Len(frame) THEN <<>>
    ELSE IF frame[i].PID \in seen THEN DropLoop(frame, i + 1, seen)
    ELSE <<frame[i]>> \o DropLoop(frame, i + 1, seen \cup { frame[i].PID })

KeepAllRows(frame) == frame

\* df.drop_duplicates(subset=["PID"]): keep="first"
DropDuplicatesPID(frame) == DropLoop(frame, 1, {})

RECURSIVE SumColumn(_, _, _)
\* frame[col].sum() from row i on
SumColumn(frame, col, i) ==
    IF i > Len(frame) THEN 0 ELSE frame[i][col] + SumColumn(frame, col, i + 1)

\* df["Translator"].nunique()
NUniqueTranslator(frame) == Cardinality(Column(frame, "Translator"))

-----------------------------------------------------------------------------
(* String operations of the search box *)

LowerChar(c) == IF c = "A" THEN "a" ELSE IF c = "B" THEN "b" ELSE c

\* str.lower()
Lower(s) == [ i \in 1..Len(s) |-> LowerChar(s[i]) ]

\* sub in s
IsSubstring(sub, s) ==
    \E off \in 0..Len(s) :
        /\ off + Len(sub) <= Len(s)
        /\ \A k \in 1..Len(sub) : s[off + k] = sub[k]

MatchesCaseSensitive(term, t) == IsSubstring(term, t)

\* search_term.lower() in t.lower()
Matches(term, t) == IsSubstring(Lower(term), Lower(t))

RECURSIVE Filter(_, _, _)
\* [t for t in translators if search_term.lower() in t.lower()]
Filter(translators, term, i) ==
    IF i > Len(translators) THEN <<>>
    ELSE IF Matches(term, translators[i])
         THEN <<translators[i]>> \o Filter(translators, term, i + 1)
         ELSE Filter(translators, term, i + 1)

\* translator_table["Translator"].tolist()
ToList(table) == [ i \in 1..Len(table) |-> table[i].Translator ]

\* st.sidebar.selectbox: one of the options, None when there is none
SelectBox(opts) ==
    IF opts = <<>> THEN { {} } ELSE { { opts[i] } : i \in 1..Len(opts) }

\* truth value of selected_translator: None and "" are false
Truthy(sel) == sel # {} /\ sel # { <<>> }

-----------------------------------------------------------------------------
(* main *)

NoOverview == [shown |-> FALSE, total_downloads |-> 0, total_posts |-> 0]

NoSummary == [shown |-> FALSE, total_translators |-> 0, total_downloads |-> 0]

NeverEmpty(rs) == FALSE

\* not results: an empty list is false
NotResults(rs) == rs = <<>>

InitWith(inputs) ==
    /\ fileExists \in BOOLEAN
    /\ fileContent \in (IF fileExists THEN inputs ELSE { <<>> })
    /\ pc = "start"
    /\ results = <<>>
    /\ notices = <<>>
    /\ calls = {}
    /\ fault = NoFault
    /\ df = <<>>
    /\ search_term = <<>>
    /\ translator_table = <<>>
    /\ options = <<>>
    /\ selected_translator = {}
    /\ overview = NoOverview
    /\ summary = NoSummary

Init == InitWith(WellFormedInputs)

\* lines 39-41: results = load_results(); if not results: return
MainLoad ==
    /\ pc = "start"
    /\ LET r == load_results(fileExists, fileContent)
       IN  /\ results' = r.ret
           /\ notices' = notices \o r.errors
           /\ pc' = IF NotResults(r.ret) THEN "done" ELSE "loaded"
    /\ calls' = calls \cup { "load_results" }
    /\ UNCHANGED <<fileExists, fileContent, fault, df, search_term,
                   translator_table, options, selected_translator, overview, summary>>

\* line 43: df = prepare_data(results)
MainPrepare ==
    /\ pc = "loaded"
    /\ LET r == prepare_data(results)
       IN  IF r.raised
           THEN /\ fault' = KeyError(r.key, "prepare_data")
                /\ pc' = "fault"
                /\ df' = df
           ELSE /\ df' = r.data
                /\ pc' = "prepared"
                /\ fault' = fault
    /\ calls' = calls \cup { "prepare_data" }
    /\ UNCHANGED <<fileExists, fileContent, results, notices, search_term,
                   translator_table, options, selected_translator, overview, summary>>

\* lines 46-57: the search box, then the leaderboard
MainLeaderboard ==
    /\ pc = "prepared"
    /\ \E term \in TermPool :
        /\ search_term' = term
        /\ IF ~HasColumn(df, "Translator")
           THEN /\ fault' = KeyError("Translator", "groupby")
                /\ pc' = "fault"
                /\ translator_table' = translator_table
                /\ calls' = calls \cup { "search_box" }
           ELSE /\ \E sorted \in SortValuesDescending(GroupByTranslatorMax(df),
                                                     "Total_Downloads") :
                       translator_table' = WithIndex(sorted)
                /\ pc' = "leaderboard"
                /\ fault' = fault
                /\ calls' = calls \cup { "search_box", "leaderboard" }
    /\ UNCHANGED <<fileExists, fileContent, results, notices, df, options,
                   selected_translator, overview, summary>>

\* lines 59-73: the selector and the sidebar's translator list
MainSelector ==
    /\ pc = "leaderboard"
    /\ LET translators == ToList(translator_table)
           opts == IF search_term # <<>> THEN Filter(translators, search_term, 1)
                   ELSE translators
       IN  /\ options' = opts
           /\ selected_translator' \in SelectBox(opts)
    /\ pc' = "selected"
    /\ calls' = calls \cup { "selector", "translator_list" }
    /\ UNCHANGED <<fileExists, fileContent, results, notices, fault, df, search_term,
                   translator_table, overview, summary>>

\* lines 75-131: the selected translator's overview, charts and post table
MainDetail ==
    /\ pc = "selected"
    /\ LET translator_data ==
               SelectRows(df, { i \in 1..Len(df) : { df[i].Translator } = selected_translator }, 1)
       IN  IF Truthy(selected_translator)
           THEN /\ overview' = [shown           |-> TRUE,
                                total_downloads |-> translator_data[1].Total_Downloads,
                                total_posts     |-> Len(translator_data)]
                /\ calls' = calls \cup { "overview", "line_chart", "bar_chart", "posts_table" }
           ELSE /\ overview' = overview
                /\ calls' = calls
    /\ pc' = "detail"
    /\ UNCHANGED <<fileExists, fileContent, results, notices, fault, df, search_term,
                   translator_table, options, selected_translator, summary>>

\* lines 133-153: Global Insights
MainInsights ==
    /\ pc = "detail"
    /\ LET unique_posts == DropDuplicatesPID(df)
       IN  summary' = [shown             |-> TRUE,
                       total_translators |-> NUniqueTranslator(df),
                       total_downloads   |-> SumColumn(unique_posts, "Post_Downloads", 1)]
    /\ pc' = "done"
    /\ calls' = calls \cup { "global_insights" }
    /\ UNCHANGED <<fileExists, fileContent, results, notices, fault, df, search_term,
                   translator_table, options, selected_translator, overview>>

Next ==
    \/ MainLoad
    \/ MainPrepare
    \/ MainLeaderboard
    \/ MainSelector
    \/ MainDetail
    \/ MainInsights

Spec == Init /\ [][Next]_vars

\* the same program run on files whose objects may lack keys
InitKeys == InitWith(KeyInputs)

SpecKeys == InitKeys /\ [][Next]_vars

-----------------------------------------------------------------------------
(* Vocabulary of the properties *)

\* prepare_data has returned a frame
Shaped == "prepare_data" \in calls /\ fault.at # "prepare_data"

LeaderboardBuilt == "leaderboard" \in calls

SelectorShown == "selector" \in calls

RECURSIVE PostsBefore(_, _)
\* number of posts in the records before record i
PostsBefore(rs, i) ==
    IF i <= 1 THEN 0 ELSE PostsBefore(rs, i - 1) + Len(rs[i - 1].posts)

\* the records that have at least one post
WithPosts(rs) == { i \in 1..Len(rs) : rs[i].posts # <<>> }

NamesWithPosts(rs) == { rs[i].translator : i \in WithPosts(rs) }

TableNames == { translator_table[i].Translator : i \in 1..Len(translator_table) }

RECURSIVE SumOver(_, _)
\* sum of f[x] over the finite set S
SumOver(S, f) ==
    IF S = {} THEN 0
    ELSE LET x == CHOOSE y \in S : TRUE IN f[x] + SumOver(S \ { x }, f)

\* the first row of df that carries PID p
FirstRowOf(p) == CHOOSE i \in 1..Len(df) : df[i].PID = p /\ \A k \in 1..(i - 1) : df[k].PID # p

SameLetter(c, d) == c = d \/ { c, d } = { "a", "A" } \/ { c, d } = { "b", "B" }

\* term occurs in name, letter case ignored
OccursIgnoringCase(term, name) ==
    \E off \in 0..Len(name) :
        /\ off + Len(term) <= Len(name)
        /\ \A k \in 1..Len(term) : SameLetter(name[off + k], term[k])

PositionInTable(name) == CHOOSE i \in 1..Len(translator_table) : translator_table[i].Translator = name

-----------------------------------------------------------------------------
(* C1 *)

\* C1: when final_results.json does not exist, load_results raises nothing,
\* emits exactly one error notice and returns the empty list, and main halts
\* at once: prepare_data is not called and nothing is rendered.
C1_MissingFileHalts ==
    (~fileExists /\ pc # "start") =>
        /\ pc = "done"
        /\ fault = NoFault
        /\ notices = <<FileNotFoundNotice>>
        /\ results = <<>>
        /\ calls = { "load_results" }
        /\ df = <<>>
        /\ translator_table = <<>>
        /\ ~overview.shown
        /\ ~summary.shown

C1_Witness == ~fileExists /\ pc = "done" /\ Len(notices) = 1

-----------------------------------------------------------------------------
(* C2 *)

\* C2: the flat row of post j of record i carries Rank = results[i].rank and
\* Total Downloads = results[i].downloads, whatever the posts' own downloads
\* add up to.
C2_RankAndTotalCopied ==
    Shaped =>
        \A i \in 1..Len(results) : \A j \in 1..Len(results[i].posts) :
            LET n == PostsBefore(results, i) + j
            IN  /\ n <= Len(df)
                /\ df[n].Rank = results[i].rank
                /\ df[n].Total_Downloads = results[i].downloads

C2_Witness ==
    /\ Shaped
    /\ \E i \in 1..Len(results) :
        /\ results[i].posts # <<>>
        /\ results[i].downloads # SumPostDownloads(results[i].posts, 1)
        /\ df[PostsBefore(results, i) + 1].Total_Downloads = results[i].downloads

-----------------------------------------------------------------------------
(* C3 *)

\* C3: the global total is the sum of Post Downloads over one row per distinct
\* PID, the first in flat-table order; a pid shared by two translators with
\* the same downloads D is counted once.
C3_TotalDeduplicatedByPID ==
    summary.shown =>
        /\ summary.total_downloads =
               SumOver(Column(df, "PID"), [ p \in Column(df, "PID") |-> df[FirstRowOf(p)].Post_Downloads ])
        /\ (/\ Len(df) = 2
            /\ df[1].PID = df[2].PID
            /\ df[1].Translator # df[2].Translator
            /\ df[1].Post_Downloads = df[2].Post_Downloads)
           => summary.total_downloads = df[1].Post_Downloads

C3_Witness ==
    /\ summary.shown
    /\ Len(df) = 2
    /\ df[1].PID = df[2].PID
    /\ df[1].Translator # df[2].Translator
    /\ df[1].Post_Downloads = df[2].Post_Downloads
    /\ summary.total_downloads = df[1].Post_Downloads

-----------------------------------------------------------------------------
(* C4 *)

\* C4: the leaderboard has one entry per distinct translator name of the flat
\* table, is in descending order of Total Downloads, and its Index column
\* reads 1, 2, ..., n in that order.
C4_LeaderboardSortedAndIndexed ==
    LeaderboardBuilt =>
        /\ TableNames = Column(df, "Translator")
        /\ Len(translator_table) = Cardinality(Column(df, "Translator"))
        /\ \A i \in 1..(Len(translator_table) - 1) :
               translator_table[i].Total_Downloads >= translator_table[i + 1].Total_Downloads
        /\ \A i \in 1..Len(translator_table) : translator_table[i].Index = i

C4_Witness ==
    /\ LeaderboardBuilt
    /\ Len(translator_table) >= 2
    /\ translator_table[1].Total_Downloads > translator_table[2].Total_Downloads
    /\ translator_table[2].Index = 2

-----------------------------------------------------------------------------
(* C5 *)

\* C5 as stated: all rows of one translator name carry the same Rank and
\* Total Downloads, and each leaderboard entry equals the rank and downloads
\* of the records of that name, also when two records share a name.
C5_Original ==
    LeaderboardBuilt =>
        /\ \A i, j \in 1..Len(df) :
               df[i].Translator = df[j].Translator =>
                   /\ df[i].Rank = df[j].Rank
                   /\ df[i].Total_Downloads = df[j].Total_Downloads
        /\ \A e \in 1..Len(translator_table) : \A i \in WithPosts(results) :
               results[i].translator = translator_table[e].Translator =>
                   /\ translator_table[e].Rank = results[i].rank
                   /\ translator_table[e].Total_Downloads = results[i].downloads

\* C5 amended: all rows derived from one record carry the same Rank and Total
\* Downloads; a leaderboard entry carries the largest rank and the largest
\* downloads among the records of its name that have posts, which are that
\* record's own values whenever those records agree (one record per name).
C5_EntryIsMaxOverRecords ==
    LeaderboardBuilt =>
        /\ \A i \in 1..Len(results) : \A j, k \in 1..Len(results[i].posts) :
               /\ df[PostsBefore(results, i) + j].Rank = df[PostsBefore(results, i) + k].Rank
               /\ df[PostsBefore(results, i) + j].Total_Downloads
                      = df[PostsBefore(results, i) + k].Total_Downloads
        /\ \A e \in 1..Len(translator_table) :
               LET same == { i \in WithPosts(results) :
                                 results[i].translator = translator_table[e].Translator }
               IN  /\ same # {}
                   /\ \E i \in same : translator_table[e].Rank = results[i].rank
                   /\ \E i \in same : translator_table[e].Total_Downloads = results[i].downloads
                   /\ \A i \in same :
                          /\ results[i].rank <= translator_table[e].Rank
                          /\ results[i].downloads <= translator_table[e].Total_Downloads

C5_Witness ==
    /\ LeaderboardBuilt
    /\ \E i, j \in WithPosts(results) :
        /\ results[i].translator = results[j].translator
        /\ results[i].rank < results[j].rank
        /\ results[i].downloads > results[j].downloads
        /\ \E e \in 1..Len(translator_table) :
            /\ translator_table[e].Translator = results[i].translator
            /\ translator_table[e].Rank = results[j].rank
            /\ translator_table[e].Total_Downloads = results[i].downloads

-----------------------------------------------------------------------------
(* C6 *)

\* C6: with a non-empty search term the selector offers exactly the
\* leaderboard names in which the term occurs, letter case ignored, in
\* leaderboard order; with an empty term it offers the whole leaderboard list.
C6_SelectorOptions ==
    SelectorShown =>
        IF search_term = <<>>
        THEN options = [ i \in 1..Len(translator_table) |-> translator_table[i].Translator ]
        ELSE /\ { options[i] : i \in 1..Len(options) }
                    = { n \in TableNames : OccursIgnoringCase(search_term, n) }
             /\ \A i, j \in 1..Len(options) :
                    i < j => PositionInTable(options[i]) < PositionInTable(options[j])

C6_Witness ==
    /\ SelectorShown
    /\ search_term = <<"a">>
    /\ Len(translator_table) = 2
    /\ options = <<NameAb>>

-----------------------------------------------------------------------------
(* C7 *)

\* C7 as stated: given an empty input array the flat table has zero rows and
\* the global summary reports zero translators and zero downloads.
C7_Original ==
    (fileExists /\ fileContent = <<>> /\ pc = "done") =>
        /\ Len(df) = 0
        /\ summary.shown
        /\ summary.total_translators = 0
        /\ summary.total_downloads = 0

\* C7 amended: given an empty input array the flat table has zero rows and
\* main halts right after loading, with no notice and no fault: prepare_data
\* is not called in the run and no global summary is reported at all.
C7_EmptyArrayHalts ==
    (fileExists /\ fileContent = <<>> /\ pc # "start") =>
        /\ pc = "done"
        /\ fault = NoFault
        /\ notices = <<>>
        /\ Len(df) = 0
        /\ ~prepare_data(results).raised
        /\ Len(prepare_data(results).data) = 0
        /\ calls = { "load_results" }
        /\ ~summary.shown

C7_Witness == fileExists /\ fileContent = <<>> /\ pc = "done" /\ ~summary.shown

-----------------------------------------------------------------------------
(* C8 *)

\* C8: the flat table has one row per post, sum of len(R.posts) rows in all;
\* rows follow the input order of the records and, within a record, of its
\* posts, each carrying the record's name and the post's title, downloads and
\* pid unchanged.
C8_OneRowPerPostInOrder ==
    Shaped =>
        /\ Len(df) = PostsBefore(results, Len(results) + 1)
        /\ \A i \in 1..Len(results) : \A j \in 1..Len(results[i].posts) :
               LET n == PostsBefore(results, i) + j
               IN  /\ n <= Len(df)
                   /\ df[n].Translator = results[i].translator
                   /\ df[n].Post_Title = results[i].posts[j].title
                   /\ df[n].Post_Downloads = results[i].posts[j].downloads
                   /\ df[n].PID = results[i].posts[j].pid

C8_Witness ==
    /\ Shaped
    /\ Len(results) = 2
    /\ Len(results[2].posts) = 2
    /\ results[2].posts[1] # results[2].posts[2]
    /\ df[1].Post_Title = results[2].posts[1].title
    /\ df[2].Post_Title = results[2].posts[2].title

-----------------------------------------------------------------------------
(* C9 *)

LacksRecordKey(r) == RecordKeys \ DOMAIN r # {}

LacksPostKey(r) ==
    "posts" \in DOMAIN r /\ \E j \in 1..Len(r["posts"]) : PostKeys \ DOMAIN r["posts"][j] # {}

\* what prepare_data reads of record r: downloads and posts always, rank,
\* translator and the posts' keys only when there is a post
ReadsMissingKey(r) ==
    \/ "downloads" \notin DOMAIN r
    \/ "posts" \notin DOMAIN r
    \/ /\ r["posts"] # <<>>
       /\ \/ "rank" \notin DOMAIN r
          \/ "translator" \notin DOMAIN r
          \/ LacksPostKey(r)

\* C9 as stated: a file in which a record lacks rank, translator, downloads
\* or posts, or a post lacks title, downloads or pid, never renders fully.
C9_Original ==
    (\E i \in 1..Len(results) : LacksRecordKey(results[i]) \/ LacksPostKey(results[i]))
        => ~(pc = "done" /\ summary.shown)

\* C9 amended: prepare_data ends in a KeyError exactly when some record lacks
\* downloads or posts or, having at least one post, lacks rank or translator
\* or has a post lacking title, downloads or pid; the run then stops there and
\* renders nothing.  A record with no posts that lacks rank or translator is
\* accepted, and the dashboard renders in full from the other records' rows.
C9_FaultIffKeyRead ==
    "prepare_data" \in calls =>
        /\ (fault.at = "prepare_data") <=> (\E i \in 1..Len(results) : ReadsMissingKey(results[i]))
        /\ fault.at = "prepare_data" =>
               /\ pc = "fault"
               /\ fault.exc = "KeyError"
               /\ calls = { "load_results", "prepare_data" }
               /\ df = <<>>
               /\ ~summary.shown

C9_Witness ==
    /\ pc = "done"
    /\ summary.shown
    /\ fault = NoFault
    /\ \E i \in 1..Len(results) :
           "rank" \notin DOMAIN results[i] /\ "posts" \in DOMAIN results[i]

-----------------------------------------------------------------------------
(* C10 *)

\* C10: a record without posts contributes no flat row, so it is absent from
\* the leaderboard, the selector options and the distinct-translator count,
\* which is the number of names having at least one post; and a non-empty
\* input in which no record has a post never reaches Global Insights.
C10_PostlessRecordsAbsent ==
    /\ Shaped => Len(df) = Cardinality({ <<i, j>> \in (1..Len(results)) \X (1..MaxPosts) :
                                               j <= Len(results[i].posts) })
    /\ LeaderboardBuilt => TableNames = NamesWithPosts(results)
    /\ SelectorShown => \A k \in 1..Len(options) : options[k] \in NamesWithPosts(results)
    /\ summary.shown => summary.total_translators = Cardinality(NamesWithPosts(results))
    /\ (results # <<>> /\ WithPosts(results) = {}) =>
           /\ pc \in { "loaded", "prepared", "fault" }
           /\ "global_insights" \notin calls
           /\ ~summary.shown

C10_Witness ==
    /\ summary.shown
    /\ pc = "done"
    /\ \E i \in 1..Len(results) :
        /\ results[i].posts = <<>>
        /\ results[i].translator \notin TableNames
        /\ results[i].translator \notin { options[k] : k \in 1..Len(options) }
    /\ summary.total_translators = 1
    /\ Len(results) = 2

====
